---- MODULE Spec2Model ----
(***************************************************************************)
(* PackageNest registry core: packageCreate, packageRetrieve,              *)
(* registryReset of src/src/service/DefaultService.ts over a blob store    *)
(* (S3) and three relational tables (packages, metadata, package_data).    *)
(* Every await of a handler is a step boundary: a request is a small       *)
(* process whose position is pc[p] and whose local variables are loc[p].   *)
(* Strings are TLA+ strings; JavaScript's undefined is the reserved value  *)
(* Undefined, which no input string equals.                                *)
(***************************************************************************)
EXTENDS Integers, Sequences, FiniteSets, TLC

\* ------------------------------------------------------------------------
\* Bounds of the model
\* ------------------------------------------------------------------------

\* number of requests issued in one history
MaxRequests == 3

\* page size of one S3 listing call, scaled down from the service's 1000
ListMaxKeys == 1

\* number of store, network and collaborator failures in one history
MaxFailures == 1

\* request slots; the sequential specification uses slot 1 only
Procs == {1, 2}

\* ------------------------------------------------------------------------
\* JavaScript values and string helpers
\* ------------------------------------------------------------------------

Undefined == "<undefined>"

\* !x for a string-or-undefined x
Falsy(x) == x = Undefined \/ x = ""

\* `${x}` inside a template literal
Str(x) == IF x = Undefined THEN "undefined" ELSE x

\* x ?? d
Coalesce(x, d) == IF x = Undefined THEN d ELSE x

CharAt(s, i) == SubSeq(s, i, i)

RECURSIVE TrimLeft(_)
TrimLeft(s) ==
  IF Len(s) > 0 /\ CharAt(s, 1) = " " THEN TrimLeft(SubSeq(s, 2, Len(s))) ELSE s

RECURSIVE TrimRight(_)
TrimRight(s) ==
  IF Len(s) > 0 /\ CharAt(s, Len(s)) = " "
  THEN TrimRight(SubSeq(s, 1, Len(s) - 1)) ELSE s

\* x?.trim()
Trim(x) == IF x = Undefined THEN Undefined ELSE TrimRight(TrimLeft(x))

\* printable characters in code-unit order; strings compare by this order
Ascii == " !#$%&()*+,-./0123456789:;<=>?@ABCDEFGHIJKLMNOPQRSTUVWXYZ[]^_abcdefghijklmnopqrstuvwxyz{|}~"

Code(c) == CHOOSE i \in 1..Len(Ascii) : CharAt(Ascii, i) = c

RECURSIVE StrLess(_, _)
StrLess(s, t) ==
  IF Len(t) = 0 THEN FALSE
  ELSE IF Len(s) = 0 THEN TRUE
  ELSE IF CharAt(s, 1) = CharAt(t, 1)
       THEN StrLess(SubSeq(s, 2, Len(s)), SubSeq(t, 2, Len(t)))
       ELSE Code(CharAt(s, 1)) < Code(CharAt(t, 1))

HasPrefix(s, prefix) ==
  Len(s) >= Len(prefix) /\ SubSeq(s, 1, Len(prefix)) = prefix

\* first index >= from at which sub occurs in s, 0 if none
RECURSIVE IndexOfFrom(_, _, _)
IndexOfFrom(s, sub, from) ==
  IF from + Len(sub) - 1 > Len(s) THEN 0
  ELSE IF SubSeq(s, from, from + Len(sub) - 1) = sub THEN from
  ELSE IndexOfFrom(s, sub, from + 1)

\* length of the longest run of non-'/' characters of s starting at from
RECURSIVE SegmentLen(_, _)
SegmentLen(s, from) ==
  IF from > Len(s) \/ CharAt(s, from) = "/" THEN 0
  ELSE 1 + SegmentLen(s, from + 1)

\* URL.match(/github\.com\/([^/]+)\/([^/]+)(?:\/blob\/([^/]+)\/(.+))?/):
\* <<owner, repo>> of the first place the pattern matches, <<>> if none
RECURSIVE RepoMatchFrom(_, _)
RepoMatchFrom(url, from) ==
  LET i == IndexOfFrom(url, "github.com/", from)
      o == i + Len("github.com/")
      ol == SegmentLen(url, o)
      r == o + ol + 1
      rl == SegmentLen(url, r)
  IN IF i = 0 THEN <<>>
     ELSE IF ol > 0 /\ o + ol <= Len(url) /\ rl > 0
          THEN <<SubSeq(url, o, o + ol - 1), SubSeq(url, r, r + rl - 1)>>
          ELSE RepoMatchFrom(url, i + 1)

RepoMatch(url) == RepoMatchFrom(url, 1)

\* ------------------------------------------------------------------------
\* Encodings
\* ------------------------------------------------------------------------

\* archive payloads (raw bytes) the model distinguishes
Bytes == {"", "A"}

\* Buffer.from(bytes).toString("base64")
B64Encode(b) == CASE b = "" -> "" [] b = "A" -> "QQ=="

\* Buffer.from(s, "base64"): lenient, padding is optional
B64Decode(s) ==
  CASE s = "" -> "" [] s = "QQ==" -> "A" [] s = "QQ" -> "A"
    [] s = "UVE9PQ==" -> "QQ=="

\* btoa(s) of a base64 text s: the base64 of the characters of s
Btoa(s) == CASE s = "" -> "" [] s = "QQ==" -> "UVE9PQ=="

\* uuidv5(s, NAMESPACE) for the one fixed NAMESPACE; the hash is taken to be
\* injective on its input string
Uuidv5(s) == "uuid5:" \o s

\* the identifier packageCreate derives from its two locals
Identity(name, version) == Uuidv5(Str(name) \o "-" \o Str(version))

\* `packages/${packageName}/v${packageVersion}/package.zip`
S3Key(name, version) ==
  "packages/" \o Str(name) \o "/v" \o Str(version) \o "/package.zip"

\* ------------------------------------------------------------------------
\* Inputs
\* ------------------------------------------------------------------------

\* Content of a request: absent, or base64 written without its padding
ContentInputs == {Undefined, "QQ"}

\* URL of a request: absent, or a repository URL
URLInputs == {Undefined, "https://github.com/o/r"}

\* top-level Name and metadata.Name of a request
NameInputs == {Undefined, "a-b"}
MetaNameInputs == {Undefined, " a-b "}

\* metadata.Version of a request
VersionInputs == {Undefined, "b-1.0.0"}

\* metadata.ID of a request
IDInputs == {Undefined, "bogus", "uuid5:a-b-1.0.0"}

\* JSProgram and debloat of a request
JSProgramInputs == {"js"}
DebloatInputs == {FALSE}

\* what the Origin Resolver can return: a name, and a version or none
ResolverNames == {"a"}
ResolverVersions == {Undefined, "b-1.0.0"}

\* ------------------------------------------------------------------------
\* State
\* ------------------------------------------------------------------------

VARIABLES
  bucketName,   \* TRUE iff S3_BUCKET_NAME is set
  blobs,        \* blob store: key -> bytes
  packages,     \* rows of public.packages, in insertion order
  metadata,     \* rows of the metadata table, in insertion order
  packageData,  \* rows of public.package_data, in insertion order
  pc,           \* position of each request slot
  loc,          \* local variables of the handler running in each slot
  res,          \* outcome of the last request of each slot
  log,          \* calls made by the request of a slot, and its console line
                \* "regenerating" (line 389)
  pre,          \* the stores, the published set and the failure count as
                \* they were when the request of a slot began
  published,    \* name, version and id locals of the ingestions that
                \* succeeded since the last schema reset
  wiped,        \* identifiers removed by the last successful schema reset,
                \* while no package row has been inserted since
  started,      \* number of requests issued
  failures      \* number of store, network and collaborator failures so far

stores == <<blobs, packages, metadata, packageData>>
vars == <<bucketName, blobs, packages, metadata, packageData, pc, loc, res,
          log, pre, published, wiped, started, failures>>

NoBlobs == [k \in {} |-> ""]

Snapshot ==
  [blobs |-> blobs, packages |-> packages, metadata |-> metadata,
   packageData |-> packageData, published |-> published,
   failures |-> failures]

NoLoc ==
  [op |-> "none", Content |-> Undefined, URL |-> Undefined,
   Name |-> Undefined, metadataName |-> Undefined,
   metadataID |-> Undefined,
   JSProgram |-> Undefined, debloatVal |-> FALSE,
   packageName |-> Undefined, packageVersion |-> Undefined,
   packageId |-> Undefined, contentBuffer |-> Undefined,
   returnString |-> Undefined, repoOwner |-> Undefined,
   repoName |-> Undefined, id |-> Undefined, row |-> <<>>, listed |-> {},
   body |-> <<>>, offset |-> Undefined,
   totalAdditions |-> 0, reviewedAdditions |-> 0, hasNextPage |-> TRUE,
   pageCount |-> 0]

\* nextOffset: null
NullOffset == -1

NoBody ==
  [Name |-> Undefined, Version |-> Undefined, ID |-> Undefined,
   Content |-> Undefined, JSProgram |-> Undefined,
   packages |-> <<>>, nextOffset |-> NullOffset, PullRequest |-> 0]

\* what a finished request was about: its handler and the locals it ended with
Summary(l) ==
  [op |-> l.op, Content |-> l.Content, URL |-> l.URL,
   Name |-> l.Name, metadataName |-> l.metadataName,
   metadataID |-> l.metadataID,
   packageName |-> l.packageName, packageVersion |-> l.packageVersion,
   packageId |-> l.packageId, id |-> l.id, body |-> l.body,
   offset |-> l.offset,
   totalAdditions |-> l.totalAdditions,
   reviewedAdditions |-> l.reviewedAdditions,
   hasNextPage |-> l.hasNextPage, pageCount |-> l.pageCount]

NoRes == [status |-> -1, message |-> "", body |-> NoBody, req |-> Summary(NoLoc)]

\* new CustomError(message, status); a plain Error carries status 0
Err(status, message) ==
  [status |-> status, message |-> message, body |-> NoBody,
   req |-> Summary(NoLoc)]

Ok(body) ==
  [status |-> 200, message |-> "", body |-> body, req |-> Summary(NoLoc)]

Init ==
  /\ bucketName \in BOOLEAN
  /\ blobs = NoBlobs
  /\ packages = <<>>
  /\ metadata = <<>>
  /\ packageData = <<>>
  /\ pc = [p \in Procs |-> "idle"]
  /\ loc = [p \in Procs |-> NoLoc]
  /\ res = [p \in Procs |-> NoRes]
  /\ log = [p \in Procs |-> <<>>]
  /\ published = {}
  /\ wiped = {}
  /\ started = 0
  /\ failures = 0
  /\ pre = [p \in Procs |-> Snapshot]

Free(p) == pc[p] \in {"idle", "done"}

\* a request begins in slot p
Begin(p) ==
  /\ Free(p)
  /\ started < MaxRequests
  /\ started' = started + 1
  /\ pre' = [pre EXCEPT ![p] = Snapshot]
  /\ UNCHANGED failures

\* the call a request is waiting for fails
Fail == failures < MaxFailures /\ failures' = failures + 1

NoFail == UNCHANGED failures

\* the request of slot p, whose locals are l, ends with outcome r
Finish(p, r, l) ==
  /\ pc' = [pc EXCEPT ![p] = "done"]
  /\ res' = [res EXCEPT ![p] = [r EXCEPT !.req = Summary(l)]]
  /\ loc' = [loc EXCEPT ![p] = NoLoc]

\* the request of slot p goes on at label with locals l
Goto(p, label, l) ==
  /\ pc' = [pc EXCEPT ![p] = label]
  /\ res' = [res EXCEPT ![p] = NoRes]
  /\ loc' = [loc EXCEPT ![p] = l]

Call(p, what) == log' = [log EXCEPT ![p] = Append(@, what)]

NoCalls(p) == log' = [log EXCEPT ![p] = <<>>]

\* ------------------------------------------------------------------------
\* Stores
\* ------------------------------------------------------------------------

\* s3.putObject: the object at key is created or replaced
PutObject(b, key, body) ==
  [k \in DOMAIN b \cup {key} |-> IF k = key THEN body ELSE b[k]]

\* packageExistsQuery(id): is there a package row with this identifier
PackageExists(id) == \E i \in 1..Len(packages) : packages[i].package_id = id

\* insertPackageQuery, insertIntoMetadataQuery, insertIntoPackageDataQuery:
\* one row is added to the table
InsertRow(table, row) == Append(table, row)

\* executeSqlFile(): the table as the reset script leaves it
ExecuteSqlFile(table) == <<>>

\* ------------------------------------------------------------------------
\* packageCreate
\* ------------------------------------------------------------------------

\* a guard that regenerates only an absent identifier
Regenerate_OnlyWhenAbsent(packageId, derived) == Falsy(packageId)

\* line 388: the caller's identifier is absent or is not the derived one
Regenerate(packageId, derived) == Falsy(packageId) \/ packageId # derived

\* an identifier computation that trusts whatever identifier the caller gave
WithId_KeepsCallerId(l) ==
  IF Falsy(l.packageId)
  THEN [l EXCEPT !.packageId = Identity(l.packageName, l.packageVersion)]
  ELSE l

\* lines 386-391: the identifier is regenerated unless the caller's equals it
WithId(l) ==
  LET derived == Identity(l.packageName, l.packageVersion)
  IN [l EXCEPT !.packageId =
        IF Regenerate(l.packageId, derived) THEN derived ELSE l.packageId]

\* a check that rejects only a request with neither Content nor URL
InvalidBody_NeitherOnly(Content, URL) == Falsy(URL) /\ Falsy(Content)

\* line 346: neither Content nor URL, or both
InvalidBody(Content, URL) ==
  (Falsy(URL) /\ Falsy(Content)) \/ (~Falsy(URL) /\ ~Falsy(Content))

\* TRUE iff the request carries Content and no URL
ContentPath(l) == ~Falsy(l.Content) /\ Falsy(l.URL)

\* a continuation that turns away a caller's identifier that is not the
\* derived one instead of regenerating it
CreateAfterName_RejectsMismatch(p, l, lg) ==
  LET l2 == WithId(l)
      derived == Identity(l.packageName, l.packageVersion)
  IN /\ log' = [log EXCEPT ![p] = lg]
     /\ IF ~Falsy(l.packageId) /\ l.packageId # derived
        THEN Finish(p, Err(400, "ID does not match the name and version."), l)
        ELSE IF ~bucketName
        THEN Finish(p, Err(500, "S3_BUCKET_NAME is not defined in the environment variables."), l2)
        ELSE Goto(p, "exists", l2)

\* lines 386-403, up to the await of the existence read; lg is the log so far
CreateAfterName(p, l, lg) ==
  LET l2 == WithId(l)
      derived == Identity(l.packageName, l.packageVersion)
  IN /\ log' = [log EXCEPT ![p] =
                  IF Regenerate(l.packageId, derived)
                  THEN Append(lg, "regenerating") ELSE lg]
     /\ IF ~bucketName
        THEN Finish(p, Err(500, "S3_BUCKET_NAME is not defined in the environment variables."), l2)
        ELSE Goto(p, "exists", l2)

\* a head in which metadata.Name, when given, is used even if Name is given
CreateStart_MetadataFirst(p, Content, JSProgram, URL, debloat, Name, m) ==
  LET v == Trim(m.Version)
      l0 == [NoLoc EXCEPT !.op = "create", !.Content = Content, !.URL = URL,
               !.Name = Name, !.metadataName = m.Name,
               !.metadataID = m.ID,
               !.JSProgram = JSProgram, !.debloatVal = debloat,
               !.packageName = Trim(m.Name),
               !.packageVersion = IF Falsy(v) THEN "1.0.0" ELSE v,
               !.packageId = Trim(m.ID)]
      match == RepoMatch(URL)
  IN /\ Begin(p)
     /\ UNCHANGED <<bucketName, stores, published, wiped>>
     /\ IF InvalidBody(Content, URL)
        THEN /\ Finish(p, Err(400, "Invalid request body. 'Content' or 'URL' (exclusively) is required."), l0)
             /\ NoCalls(p)
        ELSE IF Falsy(l0.packageName) /\ Falsy(Name)
        THEN IF ~Falsy(URL)
             THEN IF match = <<>>
                  THEN /\ Finish(p, Err(400, "Invalid GitHub URL format"), l0)
                       /\ NoCalls(p)
                  ELSE /\ Goto(p, "resolve", [l0 EXCEPT !.repoOwner = match[1],
                                                        !.repoName = match[2]])
                       /\ NoCalls(p)
             ELSE /\ Goto(p, "resolve", l0)
                  /\ NoCalls(p)
        ELSE IF ~Falsy(l0.packageName)
        THEN CreateAfterName(p, l0, <<>>)
        ELSE CreateAfterName(p, [l0 EXCEPT !.packageName = Trim(Name)], <<>>)

\* lines 331-384: the synchronous head of packageCreate
CreateStart(p, Content, JSProgram, URL, debloat, Name, m) ==
  LET v == Trim(m.Version)
      l0 == [NoLoc EXCEPT !.op = "create", !.Content = Content, !.URL = URL,
               !.Name = Name, !.metadataName = m.Name,
               !.metadataID = m.ID,
               !.JSProgram = JSProgram, !.debloatVal = debloat,
               !.packageName = Trim(m.Name),
               !.packageVersion = IF Falsy(v) THEN "1.0.0" ELSE v,
               !.packageId = Trim(m.ID)]
      match == RepoMatch(URL)
  IN /\ Begin(p)
     /\ UNCHANGED <<bucketName, stores, published, wiped>>
     /\ IF InvalidBody(Content, URL)
        THEN /\ Finish(p, Err(400, "Invalid request body. 'Content' or 'URL' (exclusively) is required."), l0)
             /\ NoCalls(p)
        ELSE IF Falsy(l0.packageName) /\ Falsy(Name)
        THEN IF ~Falsy(URL)
             THEN IF match = <<>>
                  THEN /\ Finish(p, Err(400, "Invalid GitHub URL format"), l0)
                       /\ NoCalls(p)
                  ELSE /\ Goto(p, "resolve", [l0 EXCEPT !.repoOwner = match[1],
                                                        !.repoName = match[2]])
                       /\ NoCalls(p)
             ELSE /\ Goto(p, "resolve", l0)
                  /\ NoCalls(p)
        ELSE IF ~Falsy(Name)
        THEN CreateAfterName(p, [l0 EXCEPT !.packageName = Trim(Name)], <<>>)
        ELSE CreateAfterName(p, l0, <<>>)

\* lines 358-378: getPackageInfoRepo / getPackageInfoZipFile returns or throws
CreateResolve(p) ==
  /\ pc[p] = "resolve"
  /\ UNCHANGED <<bucketName, stores, pre, published, wiped, started>>
  /\ \/ /\ Fail
        /\ Call(p, "resolve")
        /\ Finish(p, Err(500, IF ~Falsy(loc[p].URL)
                              THEN "Failed to retrieve package info from package json using URL"
                              ELSE "Failed to retrieve package info from package json"),
                  loc[p])
     \/ /\ NoFail
        /\ \E rn \in ResolverNames, rv \in ResolverVersions :
             CreateAfterName(p, [loc[p] EXCEPT !.packageName = rn,
                                               !.packageVersion = rv],
                             Append(log[p], "resolve"))

\* an existence guard that also turns away a request whose identifier another
\* request in flight has already taken past the guard
CreateExists_Serialized(p) ==
  /\ pc[p] = "exists"
  /\ Call(p, "packageExistsQuery")
  /\ UNCHANGED <<bucketName, stores, pre, published, wiped, started>>
  /\ \/ /\ Fail
        /\ Finish(p, Err(0, "existence read failed"), loc[p])
     \/ /\ NoFail
        /\ IF \/ PackageExists(loc[p].packageId)
              \/ \E q \in Procs \ {p} :
                   /\ pc[q] \in {"download", "put", "insertPackage",
                                 "insertMetadata", "insertPackageData"}
                   /\ loc[q].packageId = loc[p].packageId
           THEN Finish(p, Err(409, "Package already exists."), loc[p])
           ELSE IF ContentPath(loc[p])
           THEN Goto(p, "put", [loc[p] EXCEPT !.returnString = loc[p].Content])
           ELSE Goto(p, "download", loc[p])

\* lines 404-411: the existence guard
CreateExists(p) ==
  /\ pc[p] = "exists"
  /\ Call(p, "packageExistsQuery")
  /\ UNCHANGED <<bucketName, stores, pre, published, wiped, started>>
  /\ \/ /\ Fail
        /\ Finish(p, Err(0, "existence read failed"), loc[p])
     \/ /\ NoFail
        /\ IF PackageExists(loc[p].packageId)
           THEN Finish(p, Err(409, "Package already exists."), loc[p])
           ELSE IF ContentPath(loc[p])
           THEN Goto(p, "put", [loc[p] EXCEPT !.returnString = loc[p].Content])
           ELSE Goto(p, "download", loc[p])

\* line 435: the address the archive is fetched from
ApiUrl(l) ==
  "https://api.github.com/repos/" \o Str(l.repoOwner) \o "/"
    \o Str(l.repoName) \o "/zipball"

\* lines 435-440: downloadFile(apiUrl) returns the base64 of the archive
CreateDownload(p) ==
  /\ pc[p] = "download"
  /\ Call(p, "downloadFile")
  /\ UNCHANGED <<bucketName, stores, pre, published, wiped, started>>
  /\ \/ /\ Fail
        /\ Finish(p, Err(500, "Failed to download or upload package from URL"), loc[p])
     \/ \E b \in Bytes :
          /\ NoFail
          /\ Goto(p, "put", [loc[p] EXCEPT !.contentBuffer = B64Encode(b),
                                           !.returnString = Btoa(B64Encode(b))])

\* an upload whose failure is logged and the inserts are issued all the same
CreatePut_InsertsAnyway(p) ==
  LET l == loc[p]
      key == S3Key(l.packageName, l.packageVersion)
      body == IF ContentPath(l) THEN B64Decode(l.Content)
              ELSE B64Decode(l.contentBuffer)
  IN /\ pc[p] = "put"
     /\ Call(p, "putObject")
     /\ UNCHANGED <<bucketName, packages, metadata, packageData, pre,
                    published, wiped, started>>
     /\ \/ /\ Fail
           /\ Goto(p, "insertPackage", l)
           /\ UNCHANGED blobs
        \/ /\ NoFail
           /\ blobs' = PutObject(blobs, key, body)
           /\ Goto(p, "insertPackage", l)

\* lines 414-428 and 441-458: s3.putObject
CreatePut(p) ==
  LET l == loc[p]
      key == S3Key(l.packageName, l.packageVersion)
      body == IF ContentPath(l) THEN B64Decode(l.Content)
              ELSE B64Decode(l.contentBuffer)
  IN /\ pc[p] = "put"
     /\ Call(p, "putObject")
     /\ UNCHANGED <<bucketName, packages, metadata, packageData, pre,
                    published, wiped, started>>
     /\ \/ /\ Fail
           /\ Finish(p, Err(500, IF ContentPath(l) THEN "Failed to upload content"
                                 ELSE "Failed to download or upload package from URL"), l)
           /\ UNCHANGED blobs
        \/ /\ NoFail
           /\ blobs' = PutObject(blobs, key, body)
           /\ Goto(p, "insertPackage", l)

InsertFailed == Err(500, "Failed to upload package or insert into database")

\* a package insert whose failure does not stop the later inserts
CreateInsertPackage_KeepsGoing(p) ==
  LET l == loc[p]
      row == [name |-> l.packageName,
              version |-> Coalesce(l.packageVersion, "1.0.0"),
              package_id |-> l.packageId,
              content_type |-> Falsy(l.contentBuffer)]
  IN /\ pc[p] = "insertPackage"
     /\ Call(p, "insertPackageQuery")
     /\ UNCHANGED <<bucketName, blobs, metadata, packageData, pre,
                    published, started>>
     /\ \/ /\ Fail
           /\ Goto(p, "insertMetadata", l)
           /\ UNCHANGED <<packages, wiped>>
        \/ /\ NoFail
           /\ packages' = InsertRow(packages, row)
           /\ wiped' = {}
           /\ Goto(p, "insertMetadata", l)

\* lines 463-466: insertPackageQuery
CreateInsertPackage(p) ==
  LET l == loc[p]
      row == [name |-> l.packageName,
              version |-> Coalesce(l.packageVersion, "1.0.0"),
              package_id |-> l.packageId,
              content_type |-> Falsy(l.contentBuffer)]
  IN /\ pc[p] = "insertPackage"
     /\ Call(p, "insertPackageQuery")
     /\ UNCHANGED <<bucketName, blobs, metadata, packageData, pre,
                    published, started>>
     /\ \/ /\ Fail
           /\ Finish(p, InsertFailed, l)
           /\ UNCHANGED <<packages, wiped>>
        \/ /\ NoFail
           /\ packages' = InsertRow(packages, row)
           /\ wiped' = {}
           /\ Goto(p, "insertMetadata", l)

\* a metadata insert whose failure is compensated: the package row and the
\* blob of the request are removed again
CreateInsertMetadata_RollsBack(p) ==
  LET l == loc[p]
      row == [name |-> l.packageName,
              version |-> Coalesce(l.packageVersion, "1.0.0"),
              package_id |-> l.packageId]
      key == S3Key(l.packageName, l.packageVersion)
      keep(r) == r.package_id # l.packageId
  IN /\ pc[p] = "insertMetadata"
     /\ Call(p, "insertIntoMetadataQuery")
     /\ UNCHANGED <<bucketName, packageData, pre, published, wiped, started>>
     /\ \/ /\ Fail
           /\ Finish(p, InsertFailed, l)
           /\ packages' = SelectSeq(packages, keep)
           /\ blobs' = [k \in DOMAIN blobs \ {key} |-> blobs[k]]
           /\ UNCHANGED metadata
        \/ /\ NoFail
           /\ metadata' = InsertRow(metadata, row)
           /\ UNCHANGED <<blobs, packages>>
           /\ Goto(p, "insertPackageData", l)

\* line 468: insertIntoMetadataQuery
CreateInsertMetadata(p) ==
  LET l == loc[p]
      row == [name |-> l.packageName,
              version |-> Coalesce(l.packageVersion, "1.0.0"),
              package_id |-> l.packageId]
  IN /\ pc[p] = "insertMetadata"
     /\ Call(p, "insertIntoMetadataQuery")
     /\ UNCHANGED <<bucketName, blobs, packages, packageData, pre,
                    published, wiped, started>>
     /\ \/ /\ Fail
           /\ Finish(p, InsertFailed, l)
           /\ UNCHANGED metadata
        \/ /\ NoFail
           /\ metadata' = InsertRow(metadata, row)
           /\ Goto(p, "insertPackageData", l)

\* lines 470-489: insertIntoPackageDataQuery, then the response
CreateInsertPackageData(p) ==
  LET l == loc[p]
      row == [package_id |-> l.packageId,
              content_type |-> Falsy(l.contentBuffer),
              url |-> l.URL, debloat |-> l.debloatVal,
              js_program |-> l.JSProgram]
  IN /\ pc[p] = "insertPackageData"
     /\ Call(p, "insertIntoPackageDataQuery")
     /\ UNCHANGED <<bucketName, blobs, packages, metadata, pre, wiped,
                    started>>
     /\ \/ /\ Fail
           /\ Finish(p, InsertFailed, l)
           /\ UNCHANGED <<packageData, published>>
        \/ /\ NoFail
           /\ packageData' = InsertRow(packageData, row)
           /\ published' = published \cup
                {[name |-> l.packageName, version |-> l.packageVersion,
                  id |-> l.packageId]}
           /\ Finish(p, Ok([NoBody EXCEPT !.Name = l.packageName,
                                           !.Version = l.packageVersion,
                                           !.ID = l.packageId,
                                           !.Content = l.returnString,
                                           !.JSProgram = l.JSProgram]), l)

\* ------------------------------------------------------------------------
\* packageRetrieve
\* ------------------------------------------------------------------------

\* identifiers a client asks for
RetrieveIdInputs ==
  {Identity(n, v) : n \in {"a", "a-b"}, v \in {Undefined, "1.0.0", "b-1.0.0"}}
    \cup {"bogus"}

\* lines 731-734: whatever the try block throws is rethrown with status 500
RetrieveCatch(e) == Err(500, "Failed to retrieve package: " \o e.message)

\* lines 673-685: packages JOIN package_data ON package_id WHERE package_id = id
JoinedRows(id) ==
  {[packagename |-> packages[ij[1]].name,
    packageversion |-> packages[ij[1]].version,
    packageid |-> packages[ij[1]].package_id,
    packageurl |-> packageData[ij[2]].url,
    packagejs |-> packageData[ij[2]].js_program,
    content_type |-> packages[ij[1]].content_type] :
     ij \in {ij \in (1..Len(packages)) \X (1..Len(packageData)) :
               /\ packages[ij[1]].package_id = id
               /\ packageData[ij[2]].package_id = id}}

\* line 697: `packages/${metadata.packageid}/v${metadata.packageversion}/package.zip`
RetrieveKey(row) ==
  "packages/" \o Str(row.packageid) \o "/v" \o Str(row.packageversion)
    \o "/package.zip"

\* lines 658-669
RetrieveStart(p, id) ==
  LET l == [NoLoc EXCEPT !.op = "retrieve", !.id = id]
  IN /\ Begin(p)
     /\ NoCalls(p)
     /\ UNCHANGED <<bucketName, stores, published, wiped>>
     /\ IF ~bucketName
        THEN Finish(p, Err(500, "S3_BUCKET_NAME is not defined in the environment variables."), l)
        ELSE Goto(p, "retrieveQuery", l)

\* lines 671-691: the metadata query; rows[0] is any row of the join
RetrieveQuery(p) ==
  /\ pc[p] = "retrieveQuery"
  /\ Call(p, "metadataQuery")
  /\ UNCHANGED <<bucketName, stores, pre, published, wiped, started>>
  /\ \/ /\ Fail
        /\ Finish(p, RetrieveCatch(Err(0, "metadata read failed")), loc[p])
     \/ /\ NoFail
        /\ IF JoinedRows(loc[p].id) = {}
           THEN Finish(p, RetrieveCatch(Err(404, "Package not found.")), loc[p])
           ELSE \E row \in JoinedRows(loc[p].id) :
                  Goto(p, "retrieveGet", [loc[p] EXCEPT !.row = row])

\* lines 695-730: s3.getObject, then the response
RetrieveGet(p) ==
  LET row == loc[p].row
      key == RetrieveKey(row)
      content == B64Encode(blobs[key])
  IN /\ pc[p] = "retrieveGet"
     /\ Call(p, "getObject")
     /\ UNCHANGED <<bucketName, stores, pre, published, wiped, started>>
     /\ \/ /\ Fail
           /\ Finish(p, RetrieveCatch(Err(0, "getObject failed")), loc[p])
        \/ /\ NoFail
           /\ IF key \notin DOMAIN blobs
              THEN Finish(p, RetrieveCatch(Err(0, "The specified key does not exist.")), loc[p])
              ELSE IF Falsy(content)
              THEN Finish(p, RetrieveCatch(Err(404, "Package content not found in S3.")), loc[p])
              ELSE Finish(p, Ok([NoBody EXCEPT !.Name = row.packagename,
                                               !.Version = row.packageversion,
                                               !.ID = row.packageid,
                                               !.Content = content,
                                               !.JSProgram = row.packagejs]),
                          loc[p])

\* ------------------------------------------------------------------------
\* packagesList
\* ------------------------------------------------------------------------

\* line 775: number of items per page
limit == 10

IsDigit(c) == c \in {"0", "1", "2", "3", "4", "5", "6", "7", "8", "9"}

\* length of the longest run of digits of s starting at from
RECURSIVE DigitsLen(_, _)
DigitsLen(s, from) ==
  IF from > Len(s) \/ ~IsDigit(CharAt(s, from)) THEN 0
  ELSE 1 + DigitsLen(s, from + 1)

\* \d+\.\d+\.\d+ matched at from: the index after the match, 0 if none
TripleEnd(s, from) ==
  LET a == DigitsLen(s, from)
      d1 == from + a
      b == DigitsLen(s, d1 + 1)
      d2 == d1 + 1 + b
      c == DigitsLen(s, d2 + 1)
  IN IF /\ a > 0 /\ d1 <= Len(s) /\ CharAt(s, d1) = "."
        /\ b > 0 /\ d2 <= Len(s) /\ CharAt(s, d2) = "."
        /\ c > 0
     THEN d2 + 1 + c ELSE 0

\* /^\d+\.\d+\.\d+$/
IsExact(s) == TripleEnd(s, 1) = Len(s) + 1

\* /^\d+\.\d+\.\d+-\d+\.\d+\.\d+$/
IsRange(s) ==
  LET e == TripleEnd(s, 1)
  IN /\ e > 0 /\ e <= Len(s) /\ CharAt(s, e) = "-"
     /\ TripleEnd(s, e + 1) = Len(s) + 1

\* /^\^\d+\.\d+\.\d+$/
IsCaret(s) == Len(s) > 0 /\ CharAt(s, 1) = "^" /\ TripleEnd(s, 2) = Len(s) + 1

\* /^~\d+\.\d+\.\d+$/
IsTilde(s) == Len(s) > 0 /\ CharAt(s, 1) = "~" /\ TripleEnd(s, 2) = Len(s) + 1

\* lines 797-805: how many of the four formats the version matches
FormatMatches(s) ==
  (IF IsExact(s) THEN 1 ELSE 0) + (IF IsRange(s) THEN 1 ELSE 0)
    + (IF IsCaret(s) THEN 1 ELSE 0) + (IF IsTilde(s) THEN 1 ELSE 0)

StrLeq(s, t) == s = t \/ StrLess(s, t)

\* a version condition whose range leaves its upper end out
VersionMatches_ExclusiveEnd(version, stored) ==
  IF IsExact(version) THEN stored = version
  ELSE IF IsRange(version)
  THEN LET dash == IndexOfFrom(version, "-", 1)
           startVersion == SubSeq(version, 1, dash - 1)
           endVersion == SubSeq(version, dash + 1, Len(version))
       IN StrLeq(startVersion, stored) /\ StrLess(stored, endVersion)
  ELSE IF IsCaret(version)
  THEN LET major == SubSeq(version, 2, 1 + DigitsLen(version, 2))
       IN HasPrefix(stored, major \o ".")
  ELSE LET major == SubSeq(version, 2, 1 + DigitsLen(version, 2))
           m0 == 3 + DigitsLen(version, 2)
           minor == SubSeq(version, m0, m0 + DigitsLen(version, m0) - 1)
       IN HasPrefix(stored, major \o "." \o minor \o ".")

\* a version condition whose caret and tilde also ask for a stored version
\* that is not below the one in the filter
VersionMatches_LowerBound(version, stored) ==
  IF IsExact(version) THEN stored = version
  ELSE IF IsRange(version)
  THEN LET dash == IndexOfFrom(version, "-", 1)
           startVersion == SubSeq(version, 1, dash - 1)
           endVersion == SubSeq(version, dash + 1, Len(version))
       IN StrLeq(startVersion, stored) /\ StrLeq(stored, endVersion)
  ELSE IF IsCaret(version)
  THEN LET major == SubSeq(version, 2, 1 + DigitsLen(version, 2))
       IN /\ HasPrefix(stored, major \o ".")
          /\ StrLeq(SubSeq(version, 2, Len(version)), stored)
  ELSE LET major == SubSeq(version, 2, 1 + DigitsLen(version, 2))
           m0 == 3 + DigitsLen(version, 2)
           minor == SubSeq(version, m0, m0 + DigitsLen(version, m0) - 1)
       IN /\ HasPrefix(stored, major \o "." \o minor \o ".")
          /\ StrLeq(SubSeq(version, 2, Len(version)), stored)

\* lines 829-861: the version condition of one entry, on a stored version
VersionMatches(version, stored) ==
  IF IsExact(version) THEN stored = version
  ELSE IF IsRange(version)
  THEN LET dash == IndexOfFrom(version, "-", 1)
           startVersion == SubSeq(version, 1, dash - 1)
           endVersion == SubSeq(version, dash + 1, Len(version))
       IN StrLeq(startVersion, stored) /\ StrLeq(stored, endVersion)
  ELSE IF IsCaret(version)
  THEN LET major == SubSeq(version, 2, 1 + DigitsLen(version, 2))
       IN HasPrefix(stored, major \o ".")
  ELSE LET major == SubSeq(version, 2, 1 + DigitsLen(version, 2))
           m0 == 3 + DigitsLen(version, 2)
           minor == SubSeq(version, m0, m0 + DigitsLen(version, m0) - 1)
       IN HasPrefix(stored, major \o "." \o minor \o ".")

\* the column id of a row of public.packages
ColumnId(row) == row.package_id

\* lines 814-862: does the entry put any condition
HasConditions(e) == ~Falsy(e.Name) \/ ~Falsy(e.ID) \/ ~Falsy(e.Version)

\* an entry whose conditions are joined by OR
EntryMatches_AnyField(e, row) ==
  \/ ~Falsy(e.Name) /\ row.name = e.Name
  \/ ~Falsy(e.ID) /\ ColumnId(row) = e.ID
  \/ ~Falsy(e.Version) /\ VersionMatches(Trim(e.Version), row.version)

\* lines 814-866: the AND of the conditions of one entry
EntryMatches(e, row) ==
  /\ Falsy(e.Name) \/ row.name = e.Name
  /\ Falsy(e.ID) \/ ColumnId(row) = e.ID
  /\ Falsy(e.Version) \/ VersionMatches(Trim(e.Version), row.version)

\* line 784: the one-entry wildcard
IsWildcard(body) == Len(body) = 1 /\ body[1].Name = "*"

\* a WHERE clause that joins the groups of the entries with AND
WhereMatches_AllEntries(body, row) ==
  IF Len(body) = 0 \/ IsWildcard(body) THEN TRUE
  ELSE LET withConditions == {i \in 1..Len(body) : HasConditions(body[i])}
       IN \A i \in withConditions : EntryMatches(body[i], row)

\* lines 782-875 and getPackages lines 13-15: the WHERE clause on a row
WhereMatches(body, row) ==
  IF Len(body) = 0 \/ IsWildcard(body) THEN TRUE
  ELSE LET withConditions == {i \in 1..Len(body) : HasConditions(body[i])}
       IN withConditions = {} \/
          \E i \in withConditions : EntryMatches(body[i], row)

\* a version check that is made before the wildcard is looked at
FirstInvalid_ChecksWildcard(body) ==
  LET bad == {i \in 1..Len(body) :
                ~Falsy(body[i].Version) /\ FormatMatches(body[i].Version) # 1}
  IN IF bad = {} THEN 0
     ELSE CHOOSE i \in bad : \A j \in bad : i <= j

\* a version check that looks at the first entry only
FirstInvalid_FirstEntryOnly(body) ==
  IF IsWildcard(body) \/ Len(body) = 0 THEN 0
  ELSE IF ~Falsy(body[1].Version) /\ FormatMatches(body[1].Version) # 1
  THEN 1 ELSE 0

\* lines 795-812: index of the first entry whose version fails the check, or 0
FirstInvalid(body) ==
  LET bad == {i \in 1..Len(body) :
                ~Falsy(body[i].Version) /\ FormatMatches(body[i].Version) # 1}
  IN IF IsWildcard(body) \/ bad = {} THEN 0
     ELSE CHOOSE i \in bad : \A j \in bad : i <= j

\* value of a run of digits
RECURSIVE DigitsValue(_)
DigitsValue(s) ==
  IF Len(s) = 0 THEN 0
  ELSE 10 * DigitsValue(SubSeq(s, 1, Len(s) - 1))
         + (Code(CharAt(s, Len(s))) - Code("0"))

\* parseInt(s, 10): leading blanks, a sign, then digits; nan if there is no digit
ParseInt(s) ==
  LET t == TrimLeft(s)
      neg == Len(t) > 0 /\ CharAt(t, 1) = "-"
      from == IF Len(t) > 0 /\ CharAt(t, 1) \in {"-", "+"} THEN 2 ELSE 1
      n == DigitsLen(t, from)
      val == DigitsValue(SubSeq(t, from, from + n - 1))
  IN [nan |-> n = 0, val |-> IF n = 0 THEN 0 ELSE IF neg THEN 0 - val ELSE val]

\* line 776
OffsetValue(offset) ==
  IF Falsy(offset) THEN [nan |-> FALSE, val |-> 0] ELSE ParseInt(offset)

\* the sequences that hold each index of rows once, ascending by id: a row
\* with a least id first, then the others in the same way
RECURSIVE OrderedById(_, _)
OrderedById(rows, idx) ==
  IF idx = {} THEN {<<>>}
  ELSE UNION {{<<i>> \o q : q \in OrderedById(rows, idx \ {i})} :
                i \in {j \in idx :
                         \A k \in idx :
                           StrLeq(ColumnId(rows[j]), ColumnId(rows[k]))}}

\* a page that, past the first one, starts one row after its offset
GetPackages_SkipsARow(rows, body, lim, off) ==
  {LET n == Len(q)
       from == IF off > 0 THEN off + 1 ELSE off
       last == IF from + lim < n THEN from + lim ELSE n
   IN [i \in 1..(IF last > from THEN last - from ELSE 0) |-> rows[q[from + i]]] :
     q \in OrderedById(rows, {i \in 1..Len(rows) : WhereMatches(body, rows[i])})}

\* getPackages lines 11-26: one page of the matching rows
GetPackages(rows, body, lim, off) ==
  {LET n == Len(q)
       last == IF off + lim < n THEN off + lim ELSE n
   IN [i \in 1..(IF last > off THEN last - off ELSE 0) |-> rows[q[off + i]]] :
     q \in OrderedById(rows, {i \in 1..Len(rows) : WhereMatches(body, rows[i])})}

\* a cursor that is given whenever the page holds a row
NextOffset_WhenNonEmpty(page, off) ==
  IF Len(page) > 0 THEN off + limit ELSE NullOffset

\* line 886
NextOffset(page, off) == IF Len(page) = limit THEN off + limit ELSE NullOffset

\* lines 770-812: the filter list is checked before the store is read
ListStart(p, body, offset) ==
  LET l == [NoLoc EXCEPT !.op = "list", !.body = body, !.offset = offset]
      bad == FirstInvalid(body)
  IN /\ Begin(p)
     /\ NoCalls(p)
     /\ UNCHANGED <<bucketName, stores, published, wiped>>
     /\ IF bad # 0
        THEN Finish(p, Err(400, "Invalid or ambiguous version format: "
                                  \o body[bad].Version), l)
        ELSE Goto(p, "listQuery", l)

\* a query whose failure is answered with an empty page instead of an error
ListQuery_EmptyPageOnFailure(p) ==
  LET l == loc[p]
      off == OffsetValue(l.offset)
  IN /\ pc[p] = "listQuery"
     /\ Call(p, "getPackages")
     /\ UNCHANGED <<bucketName, stores, pre, published, wiped, started>>
     /\ \/ /\ Fail
           /\ Finish(p, Ok(NoBody), l)
        \/ /\ NoFail
           /\ IF off.nan \/ off.val < 0
              THEN Finish(p, Ok(NoBody), l)
              ELSE \E page \in GetPackages(packages, l.body, limit, off.val) :
                     Finish(p, Ok([NoBody EXCEPT
                                     !.packages = page,
                                     !.nextOffset = NextOffset(page, off.val)]), l)

\* lines 877-900: getPackages, then the page and its cursor
ListQuery(p) ==
  LET l == loc[p]
      off == OffsetValue(l.offset)
  IN /\ pc[p] = "listQuery"
     /\ Call(p, "getPackages")
     /\ UNCHANGED <<bucketName, stores, pre, published, wiped, started>>
     /\ \/ /\ Fail
           /\ Finish(p, Err(500, "An unexpected error occurred."), l)
        \/ /\ NoFail
           /\ IF off.nan \/ off.val < 0
              THEN Finish(p, Err(500, "An unexpected error occurred."), l)
              ELSE \E page \in GetPackages(packages, l.body, limit, off.val) :
                     Finish(p, Ok([NoBody EXCEPT
                                     !.packages = page,
                                     !.nextOffset = NextOffset(page, off.val)]), l)

\* ------------------------------------------------------------------------
\* registryReset
\* ------------------------------------------------------------------------

MinKey(S) == CHOOSE k \in S : \A j \in S \ {k} : StrLess(k, j)

\* the first n keys of S in key order
RECURSIVE FirstKeys(_, _)
FirstKeys(S, n) ==
  IF n = 0 \/ S = {} THEN {}
  ELSE {MinKey(S)} \cup FirstKeys(S \ {MinKey(S)}, n - 1)

\* s3.listObjectsV2({Prefix}): one page, at most ListMaxKeys keys in key order
ListObjectsV2(b, prefix) ==
  FirstKeys({k \in DOMAIN b : HasPrefix(k, prefix)}, ListMaxKeys)

\* s3.deleteObjects({Delete: {Objects}})
DeleteObjects(b, keys) == [k \in DOMAIN b \ keys |-> b[k]]

\* a catch block that logs the error and returns
ResetCatch_Swallows(e) == Ok(NoBody)

\* line 966: throw new Error(`Failed to reset registry: ${error.message}`)
ResetCatch(e) == Err(0, "Failed to reset registry: " \o e.message)

\* lines 930-936
ResetStart(p) ==
  LET l == [NoLoc EXCEPT !.op = "reset"]
  IN /\ Begin(p)
     /\ NoCalls(p)
     /\ UNCHANGED <<bucketName, stores, published, wiped>>
     /\ IF ~bucketName
        THEN Finish(p, Err(0, "S3_BUCKET_NAME is not defined in the environment variables."), l)
        ELSE Goto(p, "resetList", l)

\* lines 940-947 and 957-959
ResetList(p) ==
  LET listed == ListObjectsV2(blobs, "packages/")
  IN /\ pc[p] = "resetList"
     /\ Call(p, "listObjectsV2")
     /\ UNCHANGED <<bucketName, stores, pre, published, wiped, started>>
     /\ \/ /\ Fail
           /\ Finish(p, ResetCatch(Err(0, "listObjectsV2 failed")), loc[p])
        \/ /\ NoFail
           /\ IF listed # {}
              THEN Goto(p, "resetDelete", [loc[p] EXCEPT !.listed = listed])
              ELSE Goto(p, "resetSchema", [loc[p] EXCEPT !.listed = listed])

\* a bulk delete that is issued again when it fails
ResetDelete_Retries(p) ==
  /\ pc[p] = "resetDelete"
  /\ Call(p, "deleteObjects")
  /\ UNCHANGED <<bucketName, packages, metadata, packageData, pre,
                 published, wiped, started>>
  /\ \/ /\ Fail
        /\ Goto(p, "resetDelete", loc[p])
        /\ UNCHANGED blobs
     \/ /\ NoFail
        /\ blobs' = DeleteObjects(blobs, loc[p].listed)
        /\ Goto(p, "resetSchema", loc[p])

\* lines 948-956
ResetDelete(p) ==
  /\ pc[p] = "resetDelete"
  /\ Call(p, "deleteObjects")
  /\ UNCHANGED <<bucketName, packages, metadata, packageData, pre,
                 published, wiped, started>>
  /\ \/ /\ Fail
        /\ Finish(p, ResetCatch(Err(0, "deleteObjects failed")), loc[p])
        /\ UNCHANGED blobs
     \/ /\ NoFail
        /\ blobs' = DeleteObjects(blobs, loc[p].listed)
        /\ Goto(p, "resetSchema", loc[p])

\* line 963: executeSqlFile() empties every table, or throws
ResetSchema(p) ==
  /\ pc[p] = "resetSchema"
  /\ Call(p, "executeSqlFile")
  /\ UNCHANGED <<bucketName, blobs, pre, started>>
  /\ \/ /\ Fail
        /\ Finish(p, ResetCatch(Err(0, "executeSqlFile failed")), loc[p])
        /\ UNCHANGED <<packages, metadata, packageData, published, wiped>>
     \/ /\ NoFail
        /\ wiped' = {packages[i].package_id : i \in 1..Len(packages)}
        /\ packages' = ExecuteSqlFile(packages)
        /\ metadata' = ExecuteSqlFile(metadata)
        /\ packageData' = ExecuteSqlFile(packageData)
        /\ published' = {}
        /\ Finish(p, Ok(NoBody), loc[p])

\* ------------------------------------------------------------------------
\* packageDelete and packageUpdate
\* ------------------------------------------------------------------------

\* lines 538-545: packageDelete resolves at once; id is not read
PackageDelete(p, id) ==
  /\ Begin(p)
  /\ NoCalls(p)
  /\ UNCHANGED <<bucketName, stores, published, wiped>>
  /\ Finish(p, Ok(NoBody), [NoLoc EXCEPT !.op = "delete"])

\* lines 746-754: packageUpdate resolves at once; body and id are not read
PackageUpdate(p, body, id) ==
  /\ Begin(p)
  /\ NoCalls(p)
  /\ UNCHANGED <<bucketName, stores, published, wiped>>
  /\ Finish(p, Ok(NoBody), [NoLoc EXCEPT !.op = "update"])

\* ------------------------------------------------------------------------
\* calculatePullRequestMetric (Metrics/PullRequest.ts)
\* ------------------------------------------------------------------------

\* pull requests on one page of an answer, and additions of one pull request
MaxPerPage == 2
MaxAdditions == 1

\* line 63
maxPages == 5

\* the edges of one page: pr.additions || 0, and whether reviews.totalCount > 0
PullRequests == [additions : 0..MaxAdditions, reviewed : BOOLEAN]

Pages == UNION {[1..n -> PullRequests] : n \in 0..MaxPerPage}

\* lines 100-107: the sums of additions over one page
RECURSIVE SumAdditions(_, _)
SumAdditions(page, reviewedOnly) ==
  IF page = <<>> THEN 0
  ELSE (IF reviewedOnly /\ ~page[1].reviewed THEN 0 ELSE page[1].additions)
         + SumAdditions(SubSeq(page, 2, Len(page)), reviewedOnly)

\* line 122: Number((reviewedAdditions / totalAdditions).toFixed(3)), in
\* thousandths
PullRequestScore(reviewedAdditions, totalAdditions) ==
  (2000 * reviewedAdditions + totalAdditions) \div (2 * totalAdditions)

\* lines 117-126: the value returned after the loop, in thousandths
MetricResult(l) ==
  IF l.totalAdditions = 0 THEN 0
  ELSE PullRequestScore(l.reviewedAdditions, l.totalAdditions)

\* lines 54-65: the locals before the first page
MetricStart(p) ==
  /\ Begin(p)
  /\ NoCalls(p)
  /\ UNCHANGED <<bucketName, stores, published, wiped>>
  /\ Goto(p, "fetchPage", [NoLoc EXCEPT !.op = "metric"])

\* a loop that asks for one page more than maxPages
MetricFetch_OneMorePage(p) ==
  /\ pc[p] = "fetchPage"
  /\ Call(p, "graphql")
  /\ UNCHANGED <<bucketName, stores, pre, published, wiped, started>>
  /\ \/ /\ Fail
        /\ Finish(p, Ok([NoBody EXCEPT !.PullRequest = -1000]), loc[p])
     \/ /\ NoFail
        /\ \E page \in Pages, next \in BOOLEAN :
             LET l == [loc[p] EXCEPT
                         !.totalAdditions = @ + SumAdditions(page, FALSE),
                         !.reviewedAdditions = @ + SumAdditions(page, TRUE),
                         !.hasNextPage = next,
                         !.pageCount = @ + 1]
             IN IF l.hasNextPage /\ l.pageCount <= maxPages
                THEN Goto(p, "fetchPage", l)
                ELSE Finish(p, Ok([NoBody EXCEPT
                                     !.PullRequest = MetricResult(l)]), l)

\* lines 65-131: one turn of the loop from its await (line 95) to the next
\* await or to the return; whatever the try block throws gives -1 (line 130)
MetricFetch(p) ==
  /\ pc[p] = "fetchPage"
  /\ Call(p, "graphql")
  /\ UNCHANGED <<bucketName, stores, pre, published, wiped, started>>
  /\ \/ /\ Fail
        /\ Finish(p, Ok([NoBody EXCEPT !.PullRequest = -1000]), loc[p])
     \/ /\ NoFail
        /\ \E page \in Pages, next \in BOOLEAN :
             LET l == [loc[p] EXCEPT
                         !.totalAdditions = @ + SumAdditions(page, FALSE),
                         !.reviewedAdditions = @ + SumAdditions(page, TRUE),
                         !.hasNextPage = next,
                         !.pageCount = @ + 1]
             IN IF l.hasNextPage /\ l.pageCount < maxPages
                THEN Goto(p, "fetchPage", l)
                ELSE Finish(p, Ok([NoBody EXCEPT
                                     !.PullRequest = MetricResult(l)]), l)

\* ------------------------------------------------------------------------
\* Specifications
\* ------------------------------------------------------------------------

\* filter lists and offsets of list requests
NoFilter == [Name |-> Undefined, ID |-> Undefined, Version |-> Undefined]

ListBodyInputs ==
  {<<>>,
   <<[NoFilter EXCEPT !.Name = "*"]>>,
   <<[NoFilter EXCEPT !.Name = "a-b", !.Version = "^1.2.3"]>>,
   <<[NoFilter EXCEPT !.Name = "a"], [NoFilter EXCEPT !.Version = "1.0"]>>}

OffsetInputs == {Undefined, "10"}

MetadataInputs ==
  [Version : VersionInputs, ID : IDInputs, Name : MetaNameInputs]

\* a client issues a packageCreate in slot p
CreateRequest(p) ==
  \E Content \in ContentInputs, JSProgram \in JSProgramInputs,
     URL \in URLInputs, debloat \in DebloatInputs, Name \in NameInputs,
     m \in MetadataInputs :
    CreateStart(p, Content, JSProgram, URL, debloat, Name, m)

\* a client issues a request in slot p
Start(p) ==
  \/ CreateRequest(p)
  \/ \E id \in RetrieveIdInputs : RetrieveStart(p, id)
  \/ \E body \in ListBodyInputs, offset \in OffsetInputs :
       ListStart(p, body, offset)
  \/ ResetStart(p)
  \/ \E id \in RetrieveIdInputs : PackageDelete(p, id)
  \/ \E Content \in ContentInputs, id \in RetrieveIdInputs :
       PackageUpdate(p, Content, id)

\* a packageCreate in flight goes on from the await it is at
CreateStep(p) ==
  \/ CreateResolve(p)
  \/ CreateExists(p)
  \/ CreateDownload(p)
  \/ CreatePut(p)
  \/ CreateInsertPackage(p)
  \/ CreateInsertMetadata(p)
  \/ CreateInsertPackageData(p)

\* a request in flight takes its next step
Step(p) ==
  \/ CreateStep(p)
  \/ RetrieveQuery(p)
  \/ RetrieveGet(p)
  \/ ListQuery(p)
  \/ ResetList(p)
  \/ ResetDelete(p)
  \/ ResetSchema(p)

\* sequential histories: one client, the next request begins when the
\* previous one has ended
Next == Start(1) \/ Step(1)

Spec == Init /\ [][Next]_vars

\* concurrent ingestion: two clients issue one packageCreate each, and the two
\* requests interleave at their awaits
NextConc ==
  \E p \in Procs : (pc[p] = "idle" /\ CreateRequest(p)) \/ CreateStep(p)

SpecConc == Init /\ [][NextConc]_vars

\* --- the query engine over a stocked registry ---

\* number of packages the registry may hold when the queries begin
MaxStored == 11

\* (name, version) pairs ingested by earlier packageCreate calls that gave
\* Content, Name and metadata.Version, in the order they were ingested
Catalogue ==
  <<<<"a", "1.2.9">>, <<"a", "1.3.0">>, <<"a", "1.9.9">>, <<"a", "2.0.0">>,
    <<"a", "1.5.0">>, <<"a", "1.10.0">>, <<"b", "1.2.3">>, <<"a", "10.0.0">>,
    <<"*", "1.0.0">>, <<"b", "1.20.0">>, <<"a", "1.9.0">>, <<"b", "1.0.0">>,
    <<"a", "1.0.0">>>>

\* the rows and the blob that the ingestion of Catalogue[i] leaves
PackageRowOf(i) ==
  [name |-> Catalogue[i][1], version |-> Catalogue[i][2],
   package_id |-> Identity(Catalogue[i][1], Catalogue[i][2]),
   content_type |-> TRUE]

MetadataRowOf(i) ==
  [name |-> Catalogue[i][1], version |-> Catalogue[i][2],
   package_id |-> Identity(Catalogue[i][1], Catalogue[i][2])]

PackageDataRowOf(i) ==
  [package_id |-> Identity(Catalogue[i][1], Catalogue[i][2]),
   content_type |-> TRUE, url |-> Undefined, debloat |-> FALSE,
   js_program |-> "js"]

\* the registry after the first n pairs of Catalogue were ingested
InitList ==
  /\ bucketName = TRUE
  /\ \E n \in 0..(IF MaxStored < Len(Catalogue) THEN MaxStored
                  ELSE Len(Catalogue)) :
       /\ blobs = [k \in {S3Key(Catalogue[i][1], Catalogue[i][2]) : i \in 1..n}
                     |-> "A"]
       /\ packages = [i \in 1..n |-> PackageRowOf(i)]
       /\ metadata = [i \in 1..n |-> MetadataRowOf(i)]
       /\ packageData = [i \in 1..n |-> PackageDataRowOf(i)]
       /\ published = {[name |-> Catalogue[i][1], version |-> Catalogue[i][2],
                        id |-> Identity(Catalogue[i][1], Catalogue[i][2])] :
                         i \in 1..n}
  /\ pc = [p \in Procs |-> "idle"]
  /\ loc = [p \in Procs |-> NoLoc]
  /\ res = [p \in Procs |-> NoRes]
  /\ log = [p \in Procs |-> <<>>]
  /\ wiped = {}
  /\ started = 0
  /\ failures = 0
  /\ pre = [p \in Procs |-> Snapshot]

\* filter lists of the queries
QueryInputs ==
  {<<>>,
   <<NoFilter>>,
   <<[NoFilter EXCEPT !.Name = "*"]>>,
   <<[Name |-> "*", ID |-> "zzz", Version |-> "latest"]>>,
   <<[NoFilter EXCEPT !.Name = "*"], [NoFilter EXCEPT !.Name = "b"]>>,
   <<[NoFilter EXCEPT !.Name = "a", !.Version = "1.2.9"]>>,
   <<[NoFilter EXCEPT !.Name = "b", !.Version = "1.2.9"],
     [NoFilter EXCEPT !.Name = "a", !.Version = "2.0.0"]>>,
   <<[NoFilter EXCEPT !.Name = "b", !.ID = Identity("a", "1.3.0")],
     [NoFilter EXCEPT !.ID = Identity("a", "1.5.0")]>>,
   <<NoFilter, [NoFilter EXCEPT !.Name = "b"]>>,
   <<[NoFilter EXCEPT !.Version = "^1.2.3"]>>,
   <<[NoFilter EXCEPT !.Version = "~1.2.3"]>>,
   <<[NoFilter EXCEPT !.Version = "1.0.0-2.0.0"]>>,
   <<[NoFilter EXCEPT !.Version = "1.2.0-1.9.0"]>>,
   <<[NoFilter EXCEPT !.Version = "1.0.0-1.5.0"]>>,
   <<[NoFilter EXCEPT !.Name = "a"], [NoFilter EXCEPT !.Version = "1.0"]>>,
   <<[NoFilter EXCEPT !.Version = " 1.2.9"]>>,
   <<[NoFilter EXCEPT !.Name = "a", !.Version = "^1.2.3-2.0.0"]>>,
   <<[NoFilter EXCEPT !.Name = "b"],
     [NoFilter EXCEPT !.Name = "a", !.Version = "2.0.0"]>>}

\* offsets of the queries
QueryOffsets == {Undefined, "5", "10", "x"}

NextList ==
  \/ \E body \in QueryInputs, offset \in QueryOffsets :
       ListStart(1, body, offset)
  \/ ListQuery(1)

SpecList == InitList /\ [][NextList]_vars

\* --- a client that pages through a query ---

\* the client asks for the page after the one slot 1 returned: same filter
\* list, offset the returned nextOffset
ListFollow ==
  /\ pc[1] = "done"
  /\ pc[2] = "idle"
  /\ res[1].req.op = "list"
  /\ res[1].status = 200
  /\ res[1].body.nextOffset # NullOffset
  /\ ListStart(2, res[1].req.body, ToString(res[1].body.nextOffset))

\* one traversal of a stocked registry: the first page from offset 0 in slot
\* 1, the page after it in slot 2
NextPage ==
  \/ /\ pc[1] = "idle"
     /\ \E body \in QueryInputs : ListStart(1, body, Undefined)
  \/ ListQuery(1)
  \/ ListFollow
  \/ ListQuery(2)

SpecPage == InitList /\ [][NextPage]_vars

\* --- the choice of the name ---

\* top-level Name and metadata.Name of the requests: absent, given, blank
WideNameInputs == {Undefined, "a-b", "  "}

WideMetaNameInputs == {Undefined, " c ", "  "}

\* metadata.Version of the requests: absent, or one the resolver never returns
WideVersionInputs == {Undefined, " 2.0.0 "}

\* one packageCreate on an empty registry
NextName ==
  \/ /\ pc[1] = "idle"
     /\ \E Content \in ContentInputs, URL \in URLInputs,
           Name \in WideNameInputs, mn \in WideMetaNameInputs,
           mv \in WideVersionInputs :
          CreateStart(1, Content, "js", URL, FALSE, Name,
                      [Version |-> mv, ID |-> Undefined, Name |-> mn])
  \/ CreateStep(1)

SpecName == Init /\ [][NextName]_vars

\* --- names and versions that contain '/' ---

\* two pairs (name, version) with one blob key:
\* packages/x/vy/vz/package.zip
KeyNameInputs == {"x/vy", "x"}

KeyVersionInputs == {"z", "y/vz"}

\* sequential ingestions of such pairs, with packageDelete and packageUpdate
\* in between
NextKey ==
  \/ \E Content \in ContentInputs, URL \in URLInputs,
        Name \in KeyNameInputs, v \in KeyVersionInputs :
       CreateStart(1, Content, "js", URL, FALSE, Name,
                   [Version |-> v, ID |-> Undefined, Name |-> Undefined])
  \/ CreateExists(1)
  \/ CreateDownload(1)
  \/ CreatePut(1)
  \/ CreateInsertPackage(1)
  \/ CreateInsertMetadata(1)
  \/ CreateInsertPackageData(1)
  \/ \E id \in RetrieveIdInputs : PackageDelete(1, id)
  \/ \E Content \in ContentInputs, id \in RetrieveIdInputs :
       PackageUpdate(1, Content, id)

SpecKey == Init /\ [][NextKey]_vars

\* --- ingestion from a URL ---

\* URL of the requests: a repository URL, or one that is not
WideURLInputs == {"https://github.com/o/r", "ftp://example.org/r.zip"}

\* one packageCreate from a URL on an empty registry, the name given at the
\* top level, in metadata, or by neither
NextUrl ==
  \/ /\ pc[1] = "idle"
     /\ \E URL \in WideURLInputs, Name \in NameInputs,
           mn \in MetaNameInputs :
          CreateStart(1, Undefined, "js", URL, FALSE, Name,
                      [Version |-> Undefined, ID |-> Undefined, Name |-> mn])
  \/ CreateStep(1)

SpecUrl == Init /\ [][NextUrl]_vars

\* --- the pull request metric ---

\* one calculatePullRequestMetric
NextMetric ==
  \/ pc[1] = "idle" /\ MetricStart(1)
  \/ MetricFetch(1)

SpecMetric == Init /\ [][NextMetric]_vars

\* ------------------------------------------------------------------------
\* Properties
\* ------------------------------------------------------------------------

\* the last request of slot p ran handler op and has ended
Done(p, op) == pc[p] = "done" /\ res[p].req.op = op

\* a call of the request that just ended in slot p failed
FailedCall(p) == failures > pre[p].failures

PreStores(p) ==
  <<pre[p].blobs, pre[p].packages, pre[p].metadata, pre[p].packageData>>

\* the request carried both Content and URL, or neither
BothOrNeither(r) ==
  (r.Content = Undefined /\ r.URL = Undefined)
    \/ (r.Content # Undefined /\ r.URL # Undefined)

\* positions of packageCreate after the identifier is computed
PastId ==
  {"exists", "download", "put", "insertPackage", "insertMetadata",
   "insertPackageData"}

\* C1: sequentially, a valid packageCreate for a (name, version) whose
\* ingestion succeeded before (and was not reset since), and whose existence
\* read does not fail, ends with status 409 and leaves the blobs and the three
\* tables exactly as they were when it began.
C1_DuplicateIsConflict ==
  \A p \in Procs :
    (/\ Done(p, "create")
     /\ ~BothOrNeither(res[p].req)
     /\ ~FailedCall(p)
     /\ \E r \in pre[p].published :
          /\ r.name = res[p].req.packageName
          /\ r.version = res[p].req.packageVersion)
    => /\ res[p].status = 409
       /\ stores = PreStores(p)

\* a second ingestion of a published pair was turned away
C1_Witness ==
  \E p \in Procs :
    /\ Done(p, "create")
    /\ res[p].status = 409
    /\ \E r \in pre[p].published :
         /\ r.name = res[p].req.packageName
         /\ r.version = res[p].req.packageVersion
    /\ Len(packages) > 0

\* C2: packageCreate with both Content and URL, or with neither, ends with
\* status 400 having made no call at all (no resolver call, no existence read,
\* no fetch, no upload, no insert) and with the stores unchanged.
C2_InvalidBodyTouchesNothing ==
  \A p \in Procs :
    (Done(p, "create") /\ BothOrNeither(res[p].req))
    => /\ res[p].status = 400
       /\ log[p] = <<>>
       /\ stores = PreStores(p)

\* a request carrying both Content and URL was rejected
C2_Witness ==
  \E p \in Procs :
    /\ Done(p, "create")
    /\ res[p].req.Content # Undefined
    /\ res[p].req.URL # Undefined
    /\ res[p].status = 400

\* C3: the identifier of a request is determined by its name and version
\* locals alone: a request in flight whose name and version equal those of an
\* earlier successful ingestion has that ingestion's identifier, and no two
\* successful ingestions of one pair differ in their identifier.
C3_IdDeterministic ==
  /\ \A p \in Procs :
       pc[p] \in PastId =>
         \A r \in published :
           (r.name = loc[p].packageName /\ r.version = loc[p].packageVersion)
             => r.id = loc[p].packageId
  /\ \A r1, r2 \in published :
       (r1.name = r2.name /\ r1.version = r2.version) => r1.id = r2.id

\* a URL request that supplied an identifier of its own (line 389 did not log)
\* computed the identifier of an earlier Content ingestion of the same pair
C3_Witness ==
  \E p \in Procs :
    /\ pc[p] = "exists"
    /\ log[p] = <<>>
    /\ ~ContentPath(loc[p])
    /\ \E r \in published :
         /\ r.name = loc[p].packageName
         /\ r.version = loc[p].packageVersion
         /\ r.id = loc[p].packageId
         /\ \E i \in 1..Len(packages) :
              packages[i].package_id = r.id /\ packages[i].content_type

\* C4: two requests whose (name, version) pairs differ compute different
\* identifiers.
C4_IdInjective ==
  \A p \in Procs :
    pc[p] \in PastId =>
      \A r \in published :
        (r.name # loc[p].packageName \/ r.version # loc[p].packageVersion)
          => r.id # loc[p].packageId

\* C5: every package row and every metadata row carries the Identity of the
\* name and version stored in that row, and the blob key of the request that
\* wrote the row is built from the row's name and version.
C5_IdentityAtWriteTime ==
  /\ \A i \in 1..Len(packages) :
       packages[i].package_id = Identity(packages[i].name, packages[i].version)
  /\ \A i \in 1..Len(metadata) :
       metadata[i].package_id = Identity(metadata[i].name, metadata[i].version)
  /\ \A p \in Procs :
       pc[p] = "insertMetadata" =>
         S3Key(loc[p].packageName, loc[p].packageVersion)
           = S3Key(packages[Len(packages)].name, packages[Len(packages)].version)

\* C6: with no failure in the history, packageRetrieve of the identifier of a
\* successful ingestion succeeds and returns that ingestion's Name, Version
\* and ID and the base64 of the blob at packages/{name}/v{version}/package.zip.
C6_RoundTrip ==
  \A p \in Procs :
    (/\ Done(p, "retrieve")
     /\ failures = 0
     /\ \E r \in pre[p].published : r.id = res[p].req.id)
    => /\ res[p].status = 200
       /\ \E r \in pre[p].published :
            /\ r.id = res[p].body.ID
            /\ r.name = res[p].body.Name
            /\ r.version = res[p].body.Version
            /\ S3Key(r.name, r.version) \in DOMAIN blobs
            /\ res[p].body.Content = B64Encode(blobs[S3Key(r.name, r.version)])

\* C7: with the bucket configured and no failing call, packageRetrieve of an
\* identifier that no package row carries ends with status 404.
C7_UnknownIdIsNotFound ==
  \A p \in Procs :
    (/\ Done(p, "retrieve")
     /\ bucketName
     /\ ~FailedCall(p)
     /\ ~PackageExists(res[p].req.id))
    => res[p].status = 404

\* C8: after a successful registryReset and before the next insert, a
\* packagesList that answers returns no package and a null nextOffset, and a
\* packageRetrieve of an identifier the reset removed ends with status 404.
C8_ResetEmptiesRegistry ==
  \A p \in Procs :
    /\ (Done(p, "list") /\ wiped # {} /\ res[p].status = 200)
         => /\ res[p].body.packages = <<>>
            /\ res[p].body.nextOffset = NullOffset
    /\ (Done(p, "retrieve") /\ res[p].req.id \in wiped /\ ~FailedCall(p))
         => res[p].status = 404

\* C9: when registryReset has succeeded, no blob remains under packages/.
C9_ResetLeavesNoBlob ==
  \A p \in Procs :
    (Done(p, "reset") /\ res[p].status = 200)
    => {k \in DOMAIN blobs : HasPrefix(k, "packages/")} = {}

IsPrefixOf(s, t) == Len(s) <= Len(t) /\ SubSeq(t, 1, Len(s)) = s

\* the calls of the registryReset of slot p, whether it is running or has ended
ResetLog(p) ==
  IF loc[p].op = "reset" \/ Done(p, "reset") THEN log[p] ELSE <<>>

\* C10: registryReset lists, then deletes if anything was listed, then resets
\* the schema; when the list or the delete fails the schema reset is not
\* called and the tables are as they were; when the schema reset fails the
\* listed blobs stay deleted; in each of these cases the call fails.
C10_ResetPhases ==
  \A p \in Procs :
    /\ \/ IsPrefixOf(ResetLog(p), <<"listObjectsV2", "deleteObjects", "executeSqlFile">>)
       \/ ResetLog(p) = <<"listObjectsV2", "executeSqlFile">>
    /\ ("deleteObjects" \in {log[p][i] : i \in 1..Len(ResetLog(p))})
         <=> (Len(ResetLog(p)) >= 2
              /\ ListObjectsV2(pre[p].blobs, "packages/") # {})
    /\ (Done(p, "reset") /\ FailedCall(p))
         => /\ res[p].status # 200
            /\ IF log[p][Len(log[p])] = "executeSqlFile"
               THEN \A k \in ListObjectsV2(pre[p].blobs, "packages/") :
                      k \notin DOMAIN blobs
               ELSE /\ <<packages, metadata, packageData>>
                         = <<pre[p].packages, pre[p].metadata, pre[p].packageData>>
                    /\ "executeSqlFile" \notin {log[p][i] : i \in 1..Len(log[p])}

\* a registryReset deleted blobs and then failed in its schema reset
C10_Witness ==
  \E p \in Procs :
    /\ Done(p, "reset")
    /\ FailedCall(p)
    /\ log[p] = <<"listObjectsV2", "deleteObjects", "executeSqlFile">>
    /\ DOMAIN blobs # DOMAIN pre[p].blobs
    /\ Len(packages) > 0

\* the request of slot p, running or ended: its handler and locals
Req(p) == IF pc[p] = "done" THEN res[p].req ELSE Summary(loc[p])

IsStoreWrite(c) ==
  c \in {"putObject", "insertPackageQuery", "insertIntoMetadataQuery",
         "insertIntoPackageDataQuery"}

\* the writes a packageCreate has issued so far, in the order it issued them
WritesOf(p) == SelectSeq(log[p], IsStoreWrite)

HasRow(table, id) == \E i \in 1..Len(table) : table[i].package_id = id

\* C11: in a packageCreate the writes are issued in the order upload, package
\* row, metadata row, package-data row; when an insert has been issued the
\* blob is in the store, and when a later insert has been issued the row of
\* the insert before it is in its table.
C11_UploadThenInsertsInOrder ==
  \A p \in Procs :
    Req(p).op = "create"
    => /\ IsPrefixOf(WritesOf(p),
                     <<"putObject", "insertPackageQuery",
                       "insertIntoMetadataQuery", "insertIntoPackageDataQuery">>)
       /\ Len(WritesOf(p)) >= 2
            => S3Key(Req(p).packageName, Req(p).packageVersion) \in DOMAIN blobs
       /\ Len(WritesOf(p)) >= 3 => HasRow(packages, Req(p).packageId)
       /\ Len(WritesOf(p)) >= 4 => HasRow(metadata, Req(p).packageId)

\* a packageCreate issued its metadata insert and failed there
C11_Witness ==
  \E p \in Procs :
    /\ Done(p, "create")
    /\ FailedCall(p)
    /\ Len(WritesOf(p)) = 3
    /\ HasRow(packages, res[p].req.packageId)
    /\ ~HasRow(metadata, res[p].req.packageId)

\* C12: the step in which the archive fetch or the blob upload of a
\* packageCreate fails ends the request with an error, and the three tables
\* are as they were when the request began.
C12_UploadFailureInsertsNothing ==
  [][\A p \in Procs :
       (pc[p] \in {"download", "put"} /\ pc'[p] # pc[p] /\ failures' > failures)
       => /\ pc'[p] = "done"
          /\ res'[p].status \in {400, 409, 500, 0}
          /\ packages' = pre[p].packages
          /\ metadata' = pre[p].metadata
          /\ packageData' = pre[p].packageData]_vars

\* a packageCreate from a URL fetched the archive and failed in its upload,
\* with rows of an earlier ingestion in the tables
C12_Witness ==
  \E p \in Procs :
    /\ Done(p, "create")
    /\ FailedCall(p)
    /\ res[p].message = "Failed to download or upload package from URL"
    /\ log[p][Len(log[p])] = "putObject"
    /\ Len(packages) > 0

\* C13: the existence guard of a packageCreate lets the request through
\* exactly when no package row carries its identifier at the moment of the
\* read, whatever another request in flight has done; so two concurrent
\* requests for one identifier can both be past the guard.
C13_GuardReadsRowsOnly ==
  [][\A p \in Procs :
       (pc[p] = "exists" /\ pc'[p] # "exists" /\ failures' = failures)
       => ((pc'[p] \in {"download", "put"})
             <=> ~HasRow(packages, loc[p].packageId))]_vars

\* with no failing call, two requests for one identifier have both uploaded to
\* the same blob key and both issued their package insert
C13_Witness ==
  /\ failures = 0
  /\ \A p \in Procs : Req(p).op = "create" /\ Len(WritesOf(p)) >= 2
  /\ Req(1).packageId = Req(2).packageId
  /\ S3Key(Req(1).packageName, Req(1).packageVersion)
       = S3Key(Req(2).packageName, Req(2).packageVersion)

\* --- packagesList ---

\* the packagesList of slot p has ended with a page
ListOk(p) == Done(p, "list") /\ res[p].status = 200

Page(p) == res[p].body.packages

Returned(p) == {Page(p)[i] : i \in 1..Len(Page(p))}

Stored == {packages[i] : i \in 1..Len(packages)}

\* the page of slot p starts at the first match and is not full: it holds
\* every match
Whole(p) == ListOk(p) /\ res[p].req.offset = Undefined /\ Len(Page(p)) < 10

\* the filter list is the one-entry wildcard
SoleWildcard(b) == Len(b) = 1 /\ b[1].Name = "*"

Given(x) == x # Undefined /\ x # ""

\* the version rules of the four forms, read off the text of the filter
VersionRule(v, stored) ==
  IF CharAt(v, 1) = "^"
  THEN HasPrefix(stored, SubSeq(v, 2, IndexOfFrom(v, ".", 1)))
  ELSE IF CharAt(v, 1) = "~"
  THEN HasPrefix(stored,
                 SubSeq(v, 2, IndexOfFrom(v, ".", IndexOfFrom(v, ".", 1) + 1)))
  ELSE IF IndexOfFrom(v, "-", 1) > 0
  THEN /\ StrLeq(SubSeq(v, 1, IndexOfFrom(v, "-", 1) - 1), stored)
       /\ StrLeq(stored, SubSeq(v, IndexOfFrom(v, "-", 1) + 1, Len(v)))
  ELSE stored = v

\* the row satisfies every field the entry specifies
Satisfies(e, row) ==
  /\ Given(e.Name) => row.name = e.Name
  /\ Given(e.ID) => row.package_id = e.ID
  /\ Given(e.Version) => VersionRule(e.Version, row.version)

Specifies(e) == Given(e.Name) \/ Given(e.ID) \/ Given(e.Version)

\* C14: a packagesList whose filter list is one entry with Name "*" is never
\* refused for its Version, and when no call fails its first page is taken
\* over all the stored packages, whatever the entry's Version and ID are.
C14_WildcardSelectsAll ==
  \A p \in Procs :
    (Done(p, "list") /\ SoleWildcard(res[p].req.body))
    => /\ res[p].status # 400
       /\ (~FailedCall(p) /\ res[p].req.offset = Undefined)
            => /\ res[p].status = 200
               /\ Returned(p) \subseteq Stored
               /\ Cardinality(Returned(p)) = Len(Page(p))
               /\ Len(Page(p)) = IF Len(packages) < 10 THEN Len(packages) ELSE 10

\* a wildcard entry with a Version of no form and an ID of no package returned
\* packages of other names
C14_Witness ==
  \E p \in Procs :
    /\ ListOk(p)
    /\ res[p].req.body = <<[Name |-> "*", ID |-> "zzz", Version |-> "latest"]>>
    /\ \E r \in Returned(p) : r.name = "a"
    /\ \E r \in Returned(p) : r.name = "b"

C16_InvalidVersionIs400 ==
  \A p \in Procs :
    Done(p, "list")
    => /\ (/\ ~SoleWildcard(res[p].req.body)
           /\ \E i \in 1..Len(res[p].req.body) :
                /\ Given(res[p].req.body[i].Version)
                /\ FormatMatches(res[p].req.body[i].Version) # 1)
            => (res[p].status = 400 /\ log[p] = <<>>)
       /\ \A i \in 1..Len(res[p].req.body) :
            Given(res[p].req.body[i].Version)
            => FormatMatches(res[p].req.body[i].Version) <= 1

\* a list whose first entry is valid and whose second has Version 1.0 was
\* refused over a stocked registry
C16_Witness ==
  \E p \in Procs :
    /\ Done(p, "list")
    /\ res[p].req.body
         = <<[NoFilter EXCEPT !.Name = "a"], [NoFilter EXCEPT !.Version = "1.0"]>>
    /\ res[p].status = 400
    /\ Len(packages) > 0

\* C17: the filter ^1.2.3 matches exactly the stored versions that start with
\* "1." and the filter ~1.2.3 exactly those that start with "1.2.".
C17_CaretAndTildeArePrefixes ==
  \A p \in Procs :
    /\ (Whole(p) /\ res[p].req.body = <<[NoFilter EXCEPT !.Version = "^1.2.3"]>>)
         => Returned(p) = {r \in Stored : HasPrefix(r.version, "1.")}
    /\ (Whole(p) /\ res[p].req.body = <<[NoFilter EXCEPT !.Version = "~1.2.3"]>>)
         => Returned(p) = {r \in Stored : HasPrefix(r.version, "1.2.")}

\* ^1.2.3 returned 1.9.9 and 1.10.0 and left out 2.0.0 and 10.0.0
C17_Witness ==
  \E p \in Procs :
    /\ Whole(p)
    /\ res[p].req.body = <<[NoFilter EXCEPT !.Version = "^1.2.3"]>>
    /\ {"1.9.9", "1.10.0"} \subseteq {r.version : r \in Returned(p)}
    /\ {"2.0.0", "10.0.0"} \subseteq {r.version : r \in Stored}
    /\ {"2.0.0", "10.0.0"} \cap {r.version : r \in Returned(p)} = {}

\* the versions of Catalogue that lie in 1.2.0-1.9.0 character by character
Within_1_2_0_1_9_0 == {"1.2.9", "1.3.0", "1.5.0", "1.2.3", "1.20.0", "1.9.0"}

\* C18: a range filter A-B matches exactly the stored versions v with
\* A <= v <= B character by character, both ends included; 1.0.0-2.0.0
\* matches 1.5.0 and 2.0.0, and 1.2.0-1.9.0 matches 1.9.0 and not 1.10.0.
C18_RangeIsLexicalInclusive ==
  \A p \in Procs :
    /\ \A v \in {"1.0.0-2.0.0", "1.2.0-1.9.0", "1.0.0-1.5.0"} :
         (Whole(p) /\ res[p].req.body = <<[NoFilter EXCEPT !.Version = v]>>)
         => Returned(p)
              = {r \in Stored :
                   /\ StrLeq(SubSeq(v, 1, 5), r.version)
                   /\ StrLeq(r.version, SubSeq(v, 7, 11))}
    /\ (Whole(p) /\ res[p].req.body = <<[NoFilter EXCEPT !.Version = "1.0.0-2.0.0"]>>)
         => {r.version : r \in Stored} \cap {"1.5.0", "2.0.0"}
              \subseteq {r.version : r \in Returned(p)}
    /\ (Whole(p) /\ res[p].req.body = <<[NoFilter EXCEPT !.Version = "1.2.0-1.9.0"]>>)
         => {r.version : r \in Returned(p)}
              = {r.version : r \in Stored} \cap Within_1_2_0_1_9_0

\* 1.2.0-1.9.0 returned 1.9.0 and left out 1.10.0
C18_Witness ==
  \E p \in Procs :
    /\ Whole(p)
    /\ res[p].req.body = <<[NoFilter EXCEPT !.Version = "1.2.0-1.9.0"]>>
    /\ "1.9.0" \in {r.version : r \in Returned(p)}
    /\ "1.10.0" \in {r.version : r \in Stored}
    /\ "1.10.0" \notin {r.version : r \in Returned(p)}

\* the offset a request asked for
AskedOffset(offset) ==
  CASE offset = Undefined -> 0 [] offset = "5" -> 5 [] offset = "10" -> 10

\* C19: a page holds at most 10 packages, starts at offset 0 when no offset
\* is given, and carries nextOffset = offset + 10 when it holds exactly 10
\* packages and null otherwise; with no filter a page holds the packages from
\* the offset on, up to 10.
C19_PageAndCursor ==
  \A p \in Procs :
    ListOk(p)
    => /\ Len(Page(p)) <= 10
       /\ res[p].body.nextOffset
            = IF Len(Page(p)) = 10
              THEN AskedOffset(res[p].req.offset) + 10 ELSE NullOffset
       /\ res[p].req.body = <<>>
            => Len(Page(p))
                 = IF Len(packages) - AskedOffset(res[p].req.offset) >= 10 THEN 10
                   ELSE IF Len(packages) < AskedOffset(res[p].req.offset) THEN 0
                   ELSE Len(packages) - AskedOffset(res[p].req.offset)

\* with exactly 10 packages stored, the call at offset 10 returned an empty
\* page and no cursor
C19_Witness ==
  \E p \in Procs :
    /\ ListOk(p)
    /\ Len(packages) = 10
    /\ res[p].req.body = <<>>
    /\ res[p].req.offset = "10"
    /\ Page(p) = <<>>
    /\ res[p].body.nextOffset = NullOffset

\* --- the name of an ingestion ---

\* a name is given: it is there and, for metadata.Name, not blank
NameGiven(x) == x # Undefined /\ x # ""

MetadataNameGiven(x) == x # Undefined /\ Trim(x) # ""

\* the request of slot p got past the check of Content and URL and past the
\* match of the URL
PastHead(p) ==
  /\ Req(p).op = "create"
  /\ ~(pc[p] = "done" /\ res[p].status = 400)

\* C20: the name a packageCreate works with is the top-level Name when it is
\* given, else metadata.Name when it is given, else the name the resolver
\* returned, each without its surrounding blanks; the resolver is called only
\* when neither is given; the response, the blob key and the package row of a
\* request that succeeded carry that name.
C20_NamePrecedence ==
  \A p \in Procs :
    PastHead(p)
    => /\ NameGiven(Req(p).Name) => Req(p).packageName = Trim(Req(p).Name)
       /\ (~NameGiven(Req(p).Name) /\ MetadataNameGiven(Req(p).metadataName))
            => Req(p).packageName = Trim(Req(p).metadataName)
       /\ (~NameGiven(Req(p).Name) /\ ~MetadataNameGiven(Req(p).metadataName)
             /\ pc[p] # "resolve" /\ ~(pc[p] = "done" /\ FailedCall(p)
                                        /\ log[p] = <<"resolve">>))
            => Req(p).packageName \in ResolverNames
       /\ ("resolve" \in {log[p][i] : i \in 1..Len(log[p])} \/ pc[p] = "resolve")
            <=> (~NameGiven(Req(p).Name)
                 /\ ~MetadataNameGiven(Req(p).metadataName))
       /\ (pc[p] = "done" /\ res[p].status = 200)
            => /\ res[p].body.Name = Req(p).packageName
               /\ S3Key(Req(p).packageName, Req(p).packageVersion)
                    \in DOMAIN blobs
               /\ \E i \in 1..Len(packages) :
                    /\ packages[i].name = Req(p).packageName
                    /\ packages[i].package_id = Req(p).packageId

\* a request that gave both names was ingested under its top-level Name
C20_Witness ==
  \E p \in Procs :
    /\ Done(p, "create")
    /\ res[p].status = 200
    /\ res[p].req.Name = "a-b"
    /\ res[p].req.metadataName = " c "
    /\ res[p].body.Name = "a-b"
    /\ "packages/a-b/v1.0.0/package.zip" \in DOMAIN blobs

\* C21: the effective version of a packageCreate is the caller's
\* metadata.Version whenever the caller gave one, the resolver's only when the
\* caller gave none, and "1.0.0" when neither gave one. Stated over the step
\* in which the resolver answers: before it packageVersion holds the caller's
\* trimmed version (or the "1.0.0" default of line 343), after it the version
\* the request goes on with, which is never undefined and is the caller's
\* whenever the caller gave one.
C21_VersionPrecedence ==
  [][\A p \in Procs :
       (pc[p] = "resolve" /\ pc'[p] \in PastId)
       => /\ loc'[p].packageVersion # Undefined
          /\ (loc[p].packageVersion # "1.0.0"
                => loc'[p].packageVersion = loc[p].packageVersion)]_vars

\* C22: the ID a caller puts in metadata never changes the outcome of
\* packageCreate. Past line 391 the identifier of the request is
\* Identity(effective name, effective version) whatever the caller sent, a
\* successful response returns that identifier, and every request that does
\* not succeed has a cause that does not involve the supplied ID: an invalid
\* body, a URL that is not a repository URL, a missing bucket name, a failed
\* call, or a package row that already carries the derived identifier.
C22_SuppliedIdIgnored ==
  \A p \in Procs :
    /\ pc[p] \in PastId
        => loc[p].packageId =
             Identity(loc[p].packageName, loc[p].packageVersion)
    /\ (Done(p, "create") /\ res[p].status = 200)
        => res[p].body.ID =
             Identity(res[p].req.packageName, res[p].req.packageVersion)
    /\ (Done(p, "create") /\ res[p].status # 200)
        => \/ BothOrNeither(res[p].req)
           \/ (~Falsy(res[p].req.URL) /\ RepoMatch(res[p].req.URL) = <<>>)
           \/ ~bucketName
           \/ FailedCall(p)
           \/ HasRow(pre[p].packages,
                     Identity(res[p].req.packageName,
                              res[p].req.packageVersion))

\* a request that carried an ID other than the derived one was ingested under
\* the derived one
C22_Witness ==
  \E p \in Procs :
    /\ Done(p, "create")
    /\ res[p].status = 200
    /\ ~Falsy(res[p].req.metadataID)
    /\ res[p].req.metadataID # res[p].body.ID
    /\ HasRow(packages, res[p].body.ID)
    /\ ~HasRow(packages, res[p].req.metadataID)

\* C23: the inline flag a packageCreate stores in its Package row and in its
\* PackageOrigin row is TRUE exactly when the bytes came from Content and
\* FALSE exactly when they were downloaded from the URL, whatever the
\* downloaded payload is (the empty one included); the two rows carry the
\* same flag.
C23_InlineFlagFollowsPath ==
  \A p \in Procs :
    (Done(p, "create") /\ res[p].status = 200)
    => /\ \A i \in 1..Len(packages) :
            (i > Len(pre[p].packages)
               /\ packages[i].package_id = res[p].body.ID)
            => packages[i].content_type = ContentPath(res[p].req)
       /\ \A i \in 1..Len(packageData) :
            (i > Len(pre[p].packageData)
               /\ packageData[i].package_id = res[p].body.ID)
            => packageData[i].content_type = ContentPath(res[p].req)

\* C24: whenever no request is in flight, every Package row has its blob in
\* the store, at the key packages/{name}/v{version}/package.zip built from the
\* row's name and version (one blob per key, the store being a map). Over
\* sequential histories of packageCreate and registryReset with failing calls.
C24_EveryRowHasItsBlob ==
  (\A p \in Procs : Free(p))
  => \A i \in 1..Len(packages) :
       S3Key(packages[i].name, packages[i].version) \in DOMAIN blobs

\* the calls and checks of packageCreate whose failure is reported with this
\* message: those inside the try block whose catch throws it, or the check
\* that throws it (lines 346-378, 422-458, 461-496)
ThrownFor(message) ==
  CASE message = "Invalid request body. 'Content' or 'URL' (exclusively) is required."
         -> {"validation"}
    [] message = "Invalid GitHub URL format" -> {"validation"}
    [] message = "Failed to retrieve package info from package json using URL"
         -> {"origin resolution"}
    [] message = "Failed to retrieve package info from package json"
         -> {"origin resolution"}
    [] message = "Failed to upload content" -> {"blob write"}
    [] message = "Failed to download or upload package from URL"
         -> {"remote fetch", "blob write"}
    [] message = "Failed to upload package or insert into database"
         -> {"row insert"}
    [] OTHER -> {}

\* which of the five failures ended the packageCreate of slot p, if any
FailureOf(p) ==
  LET last == IF log[p] = <<>> THEN "" ELSE log[p][Len(log[p])]
  IN IF res[p].status = 400 THEN "validation"
     ELSE IF ~FailedCall(p) THEN "none"
     ELSE IF last = "resolve" THEN "origin resolution"
     ELSE IF last = "downloadFile" THEN "remote fetch"
     ELSE IF last = "putObject" THEN "blob write"
     ELSE IF last \in {"insertPackageQuery", "insertIntoMetadataQuery",
                       "insertIntoPackageDataQuery"} THEN "row insert"
     ELSE "none"

\* C25: a packageCreate that ends in one of the five failures (validation,
\* origin resolution, remote archive fetch, blob write, row insert) reports a
\* message that is thrown for that failure and for no other, so the caller
\* can tell from the message which failure happened, on both paths.
C25_ErrorIdentifiesFailure ==
  \A p \in Procs :
    (Done(p, "create") /\ FailureOf(p) # "none")
    => ThrownFor(res[p].message) = {FailureOf(p)}

\* the number of times call c was issued by the request of slot p
Attempts(p, c) == Cardinality({i \in 1..Len(log[p]) : log[p][i] = c})

\* C26: no operation retries. Within one packageCreate the existence read,
\* the remote fetch, the blob upload and each of the three inserts are issued
\* at most once, and within one registryReset the list, the bulk delete and
\* the schema reset are issued at most once; a request of either kind that is
\* still running has had no failing call, and one that had a failing call has
\* ended with an error.
C26_NoRetry ==
  \A p \in Procs :
    Req(p).op \in {"create", "reset"}
    => /\ \A c \in {"resolve", "packageExistsQuery", "downloadFile",
                     "putObject", "insertPackageQuery",
                     "insertIntoMetadataQuery", "insertIntoPackageDataQuery",
                     "listObjectsV2", "deleteObjects", "executeSqlFile"} :
            Attempts(p, c) <= 1
       /\ ~Free(p) => ~FailedCall(p)
       /\ (pc[p] = "done" /\ FailedCall(p)) => res[p].status # 200

\* the download of a packageCreate failed on its only attempt and the request
\* ended with an error, nothing uploaded
C26_Witness ==
  \E p \in Procs :
    /\ Done(p, "create")
    /\ FailedCall(p)
    /\ Attempts(p, "downloadFile") = 1
    /\ log[p][Len(log[p])] = "downloadFile"
    /\ res[p].status = 500
    /\ blobs = pre[p].blobs

\* the rows and the blob of published package r are in the next state as they
\* are in this one
Untouched(r) ==
  /\ \A i \in 1..Len(packages) :
       packages[i].package_id = r.id
       => i <= Len(packages') /\ packages'[i] = packages[i]
  /\ \A i \in 1..Len(packageData) :
       packageData[i].package_id = r.id
       => i <= Len(packageData') /\ packageData'[i] = packageData[i]
  /\ LET key == S3Key(r.name, r.version)
     IN key \in DOMAIN blobs
        => key \in DOMAIN blobs' /\ blobs'[key] = blobs[key]

\* C27: packageUpdate and packageDelete end at once with success and leave
\* the blob store and the three tables as they were; and in sequential
\* histories no step of any handler other than registryReset changes or
\* removes the Package row, the PackageOrigin row or the blob bytes of a
\* package whose ingestion succeeded.
C27_OnlyResetRemoves ==
  [][/\ \A p \in Procs :
          /\ loc'[p].op \notin {"update", "delete"}
          /\ (started' # started /\ pc'[p] = "done"
                /\ res'[p].req.op \in {"update", "delete"})
             => res'[p].status = 200 /\ stores' = stores
     /\ (\A p \in Procs : loc[p].op # "reset")
         => \A r \in published : Untouched(r)]_vars

\* the pages the client of SpecPage has received, in the order it asked
Traversed ==
  IF res[1].body.nextOffset = NullOffset THEN Page(1)
  ELSE Page(1) \o Page(2)

\* the traversal has ended: the last page it received carries no cursor
TraversalEnded ==
  /\ ListOk(1)
  /\ res[1].body.nextOffset # NullOffset => ListOk(2)

AtInsert == {"insertPackage", "insertMetadata", "insertPackageData"}

\* C29: when one of the three inserts of a packageCreate fails, the request
\* ends in that step with status 500 and undoes nothing: the stores are as
\* they were before the failing insert, so the uploaded blob is still at its
\* key and every row inserted before the failing insert is still in its
\* table.
C29_InsertFailureLeavesOrphans ==
  [][\A p \in Procs :
       (pc[p] \in AtInsert /\ failures' > failures)
       => /\ pc'[p] = "done"
          /\ res'[p].status = 500
          /\ stores' = stores
          /\ S3Key(loc[p].packageName, loc[p].packageVersion)
               \in DOMAIN blobs'
          /\ pc[p] # "insertPackage" => HasRow(packages', loc[p].packageId)
          /\ pc[p] = "insertPackageData"
               => HasRow(metadata', loc[p].packageId)]_vars

\* the first insert of a packageCreate failed: its blob is in the store and
\* no table holds a row for its identifier
C29_Witness ==
  \E p \in Procs :
    /\ Done(p, "create")
    /\ res[p].status = 500
    /\ FailedCall(p)
    /\ log[p][Len(log[p])] = "insertPackageQuery"
    /\ S3Key(res[p].req.packageName, res[p].req.packageVersion)
         \in DOMAIN blobs
    /\ ~HasRow(packages, res[p].req.packageId)
    /\ ~HasRow(metadata, res[p].req.packageId)
    /\ ~HasRow(packageData, res[p].req.packageId)

\* C30: the Content a successful packageCreate returns is the base64 text of
\* the bytes that request wrote to the blob store: decoding it gives the
\* bytes of the blob at the request's key, and in the Content path it is the
\* string the caller supplied.
C30_ContentIsStoredBytes ==
  \A p \in Procs :
    (Done(p, "create") /\ res[p].status = 200)
    => LET key == S3Key(res[p].req.packageName, res[p].req.packageVersion)
       IN /\ key \in DOMAIN blobs
          /\ B64Decode(res[p].body.Content) = blobs[key]
          /\ ContentPath(res[p].req)
               => res[p].body.Content = res[p].req.Content

\* C31: in sequential histories a packageCreate ends with status 409 only if
\* the registry held, when the request began, a Package row of the same
\* effective (name, version), that is, one ingested earlier and not reset
\* since; a pair that was never ingested is not turned away because of a
\* different pair in the registry.
C31_ConflictOnlyForSamePair ==
  \A p \in Procs :
    (Done(p, "create") /\ res[p].status = 409)
    => \E i \in 1..Len(pre[p].packages) :
         /\ pre[p].packages[i].name = res[p].req.packageName
         /\ pre[p].packages[i].version = res[p].req.packageVersion

\* C32: distinct packages never share a blob: two ingested packages whose
\* (name, version) pairs differ have different blob keys
\* packages/{name}/v{version}/package.zip, also when a name or a version
\* contains '/'.
C32_DistinctPairsDistinctKeys ==
  \A r1, r2 \in published :
    (r1.name # r2.name \/ r1.version # r2.version)
    => S3Key(r1.name, r1.version) # S3Key(r2.name, r2.version)

\* C33: the archive a packageCreate fetches for a URL request is the archive
\* of the repository the request's URL names: whenever the request is about
\* to fetch, the address it fetches from is built from the owner and the
\* repository parsed from the URL, whether the name came from Name, from
\* metadata.Name or from the resolver.
C33_FetchesTheNamedRepository ==
  \A p \in Procs :
    pc[p] = "download"
    => LET m == RepoMatch(loc[p].URL)
       IN /\ m # <<>>
          /\ ApiUrl(loc[p])
               = "https://api.github.com/repos/" \o m[1] \o "/" \o m[2]
                   \o "/zipball"

\* the request carries a URL, and no Content, that is not a repository URL
MalformedUrl(r) ==
  r.op = "create" /\ ~Falsy(r.URL) /\ Falsy(r.Content)
    /\ RepoMatch(r.URL) = <<>>

\* C34: a packageCreate whose URL is not a well-formed repository URL ends
\* with status 400 having made no call (no existence read, no fetch, no
\* upload, no insert) and with the stores unchanged, whether or not the
\* caller also gave Name or metadata.Name; such a request is never found
\* waiting for a call.
C34_MalformedUrlIs400 ==
  \A p \in Procs :
    MalformedUrl(Req(p))
    => /\ pc[p] = "done"
       /\ res[p].status = 400
       /\ log[p] = <<>>
       /\ stores = PreStores(p)

\* the filter list without its last entry
Front(body) == SubSeq(body, 1, Len(body) - 1)

C36_ListFailuresAreErrors ==
  \A p \in Procs :
    /\ Req(p).op = "list" => stores = PreStores(p)
    /\ Done(p, "list")
        => /\ res[p].status \in {200, 400, 500}
           /\ res[p].status = 400 <=> FirstInvalid(res[p].req.body) # 0
           /\ FailedCall(p) => res[p].status = 500
           /\ res[p].status # 200 => res[p].body = NoBody

\* the read of a stocked registry failed and the request ended with status
\* 500 and no page
C36_Witness ==
  \E p \in Procs :
    /\ Done(p, "list")
    /\ FailedCall(p)
    /\ res[p].status = 500
    /\ res[p].body = NoBody
    /\ Len(packages) > 0

\* C37: calculatePullRequestMetric fetches at most 5 pages and asks for a
\* further page only when the last one reported a next page; after every
\* page reviewedAdditions <= totalAdditions; it returns 0 when the total
\* additions are 0; and when a page fetch fails it returns -1 (here -1000
\* thousandths) instead of throwing.
C37_PullRequestMetric ==
  \A p \in Procs :
    Req(p).op = "metric"
    => /\ Attempts(p, "graphql") <= maxPages
       /\ Req(p).reviewedAdditions <= Req(p).totalAdditions
       /\ pc[p] = "fetchPage"
           => /\ loc[p].hasNextPage
              /\ loc[p].pageCount = Attempts(p, "graphql")
              /\ loc[p].pageCount < maxPages
       /\ pc[p] = "done"
           => /\ res[p].status = 200
              /\ FailedCall(p) => res[p].body.PullRequest = -1000
              /\ ~FailedCall(p)
                  => /\ res[p].req.pageCount = Attempts(p, "graphql")
                     /\ \/ ~res[p].req.hasNextPage
                        \/ res[p].req.pageCount = maxPages
                     /\ res[p].req.totalAdditions = 0
                         => res[p].body.PullRequest = 0
                     /\ res[p].body.PullRequest \in 0..1000

\* the fifth page still reported a next page and the metric returned a score
C37_Witness ==
  \E p \in Procs :
    /\ Done(p, "metric")
    /\ Attempts(p, "graphql") = maxPages
    /\ res[p].req.hasNextPage
    /\ res[p].req.totalAdditions > 0
    /\ res[p].body.PullRequest > 0

====
